---------------------------- MODULE Spec2Model ----------------------------
(***************************************************************************)
(* A model of txstatsd's ingest-and-aggregate engine                       *)
(* (txstatsd/server/processor.py).                                         *)
(*                                                                         *)
(* Byte strings are sequences of one-character strings.  Floats are exact  *)
(* rationals <<n, d>> with d > 0 in lowest terms.  The source runs         *)
(* unchanged under Python 2 and Python 3; where the two interpreters       *)
(* differ (re.sub of a str replacement into a bytes subject, round() at a  *)
(* tie) the interpreter that runs a call is an input of the call.          *)
(***************************************************************************)
EXTENDS Integers, Sequences, FiniteSets, TLC

Interpreters == {"py2", "py3"}

(***************************************************************************)
(* Sequence helpers.                                                       *)
(***************************************************************************)
Range(s) == {s[i] : i \in 1..Len(s)}

Contains(s, c) == \E i \in 1..Len(s) : s[i] = c

\* the least index of c in s (0 when c does not occur)
IndexOf(s, c) ==
    IF Contains(s, c)
    THEN CHOOSE i \in 1..Len(s) : s[i] = c /\ \A j \in 1..(i - 1) : s[j] # c
    ELSE 0

(***************************************************************************)
(* The compiled patterns, as the classes of bytes they match.              *)
(***************************************************************************)
\* SPACES = re.compile(b"\s+"): a run of ASCII whitespace
WhitespaceBytes == {" ", "\t", "\n", "\r"}

\* SLASHES = re.compile(b"\/+"): a run of forward slashes
SlashBytes == {"/"}

\* the complement of NON_ALNUM = re.compile(b"[^a-zA-Z_\-0-9\.]")
SafeBytes ==
    {"a", "b", "c", "g", "m", "p", "q", "s", "x", "z", "A", "Z",
     "0", "1", "2", "3", "4", "5", "6", "7", "8", "9", "_", "-", "."}

\* pattern.sub(repl, s) for a pattern "one or more bytes of class cls":
\* every maximal run of cls bytes is replaced by repl
RECURSIVE SubRuns(_, _, _)
SubRuns(cls, repl, s) ==
    IF s = <<>> THEN <<>>
    ELSE IF Head(s) \in cls
         THEN IF Len(s) > 1 /\ s[2] \in cls
              THEN SubRuns(cls, repl, Tail(s))
              ELSE repl \o SubRuns(cls, repl, Tail(s))
         ELSE <<Head(s)>> \o SubRuns(cls, repl, Tail(s))

\* NON_ALNUM.sub("", s): every byte outside the safe class is dropped
SubNonAlnum(s) == SelectSeq(s, LAMBDA c : c \in SafeBytes)

\* normalize_key under Python 2, where the replacements "_", "-", "" are
\* byte strings
normalize_key(key) ==
    SubNonAlnum(SubRuns(SlashBytes, <<"-">>,
                        SubRuns(WhitespaceBytes, <<"_">>, key)))

\* Under Python 3 the patterns are bytes patterns and the replacements are
\* str: sub() returns the subject untouched when nothing matches and raises
\* TypeError as soon as one replacement has to be joined into the result.
normalize_key_TypeError(key) ==
    \E i \in 1..Len(key) : key[i] \notin SafeBytes

\* the outcome of normalize_key(key) under interpreter ip: the normalized
\* key, or the TypeError that leaves the call
normalize_key_outcome(ip, key) ==
    IF ip = "py3" /\ normalize_key_TypeError(key)
    THEN [exc |-> "TypeError", key |-> <<>>]
    ELSE [exc |-> "", key |-> normalize_key(key)]

(***************************************************************************)
(* Floats, as exact rationals <<n, d>>, d > 0, in lowest terms.            *)
(***************************************************************************)
Abs(n) == IF n < 0 THEN -n ELSE n

RECURSIVE GCD(_, _)
GCD(a, b) == IF b = 0 THEN a ELSE GCD(b, a % b)

Rat(n, d) ==
    LET g == GCD(Abs(n), Abs(d))
        s == IF d < 0 THEN -1 ELSE 1
    IN  <<(s * n) \div g, (s * d) \div g>>

RatInt(n) == <<n, 1>>

RatAdd(a, b) == Rat(a[1] * b[2] + b[1] * a[2], a[2] * b[2])

RatMul(a, b) == Rat(a[1] * b[1], a[2] * b[2])

\* a / b for b # 0
RatDiv(a, b) == Rat(a[1] * b[2], a[2] * b[1])

RatLeq(a, b) == a[1] * b[2] <= b[1] * a[2]

\* int(x): truncation toward zero
RatTrunc(a) ==
    IF a[1] >= 0 THEN a[1] \div a[2] ELSE -((-a[1]) \div a[2])

RECURSIVE RatSum(_)
RatSum(s) == IF s = <<>> THEN RatInt(0) ELSE RatAdd(Head(s), RatSum(Tail(s)))

\* round(num / den) for num >= 0, den > 0: Python 2 rounds a tie away from
\* zero, Python 3 rounds it to the even neighbour
Round(ip, num, den) ==
    LET q == num \div den
        r == num % den
    IN  IF 2 * r < den THEN q
        ELSE IF 2 * r > den THEN q + 1
        ELSE IF ip = "py2" THEN q + 1
        ELSE IF q % 2 = 0 THEN q ELSE q + 1

(***************************************************************************)
(* bytes methods and float() on the bytes the payloads are made of:        *)
(* digits, ".", "-", "@", ":", "|", letters and whitespace.                *)
(***************************************************************************)
Digits == <<"0", "1", "2", "3", "4", "5", "6", "7", "8", "9">>

DigitBytes == Range(Digits)

DigitVal(c) == IndexOf(Digits, c) - 1

\* s.strip(): leading and trailing whitespace removed
RECURSIVE LStrip(_)
LStrip(s) ==
    IF s # <<>> /\ Head(s) \in WhitespaceBytes THEN LStrip(Tail(s)) ELSE s

RECURSIVE RStrip(_)
RStrip(s) ==
    IF s # <<>> /\ s[Len(s)] \in WhitespaceBytes
    THEN RStrip(SubSeq(s, 1, Len(s) - 1))
    ELSE s

Strip(s) == RStrip(LStrip(s))

\* s.split(sep): the pieces of s between the occurrences of sep
RECURSIVE Split(_, _)
Split(s, sep) ==
    LET i == IndexOf(s, sep)
    IN  IF i = 0 THEN <<s>>
        ELSE <<SubSeq(s, 1, i - 1)>> \o Split(SubSeq(s, i + 1, Len(s)), sep)

\* s.split(sep, 1) for s containing sep: what precedes the first sep, and
\* all that follows it
SplitOnce(s, sep) ==
    LET i == IndexOf(s, sep)
    IN  <<SubSeq(s, 1, i - 1), SubSeq(s, i + 1, Len(s))>>

\* the digits of s, read as a decimal number
RECURSIVE DecimalValue(_)
DecimalValue(s) ==
    IF s = <<>> THEN 0
    ELSE 10 * DecimalValue(SubSeq(s, 1, Len(s) - 1)) + DigitVal(s[Len(s)])

RECURSIVE Pow10(_)
Pow10(k) == IF k = 0 THEN 1 ELSE 10 * Pow10(k - 1)

Unsigned(s) == IF s # <<>> /\ Head(s) = "-" THEN Tail(s) ELSE s

\* float(s) succeeds: an optional sign, digits with at most one point, and
\* at least one digit
IsFloat(s) ==
    LET u == Unsigned(s)
    IN  /\ \A i \in 1..Len(u) : u[i] \in DigitBytes \cup {"."}
        /\ Cardinality({i \in 1..Len(u) : u[i] = "."}) <= 1
        /\ \E i \in 1..Len(u) : u[i] \in DigitBytes

\* float(s), for s with IsFloat(s)
ParseFloat(s) ==
    LET u    == Unsigned(s)
        p    == IndexOf(u, ".")
        frac == IF p = 0 THEN 0 ELSE Len(u) - p
        ds   == SelectSeq(u, LAMBDA c : c \in DigitBytes)
        sign == IF s # <<>> /\ Head(s) = "-" THEN -1 ELSE 1
    IN  Rat(sign * DecimalValue(ds), Pow10(frac))

\* RATE = re.compile(b"^@([\d\.]+)"): RATE.match(s) is not None
RateMatches(s) == Len(s) >= 2 /\ s[1] = "@" /\ s[2] \in DigitBytes \cup {"."}

\* the longest prefix of s made of digits and points
RECURSIVE RatePrefix(_)
RatePrefix(s) ==
    IF s # <<>> /\ Head(s) \in DigitBytes \cup {"."}
    THEN <<Head(s)>> \o RatePrefix(Tail(s))
    ELSE <<>>

\* RATE.match(s).group(1)
RateGroup(s) == RatePrefix(Tail(s))

(***************************************************************************)
(* dict, as the sequence of its items in insertion order.                  *)
(***************************************************************************)
HasKey(d, k) == \E i \in 1..Len(d) : d[i].key = k

KeyIndex(d, k) == CHOOSE i \in 1..Len(d) : d[i].key = k

Get(d, k) == d[KeyIndex(d, k)]

\* d[item.key] = item
Put(d, item) ==
    IF HasKey(d, item.key)
    THEN [d EXCEPT ![KeyIndex(d, item.key)] = item]
    ELSE Append(d, item)

(***************************************************************************)
(* MessageProcessor.  `self` is the record of the processor's fields; the  *)
(* wall clock handed to the constructor is frozen, so every measured       *)
(* duration is 0 and last_flush_duration / last_process_duration, which    *)
(* nothing reads, are left out.                                            *)
(*                                                                         *)
(* A call's result is [self, failed, exc]: the processor after the call,   *)
(* whether self.fail logged and discarded the message, and the exception   *)
(* that left the call ("" when it returned).                               *)
(***************************************************************************)
\* the metric types of the plugins handed to the constructor
PluginTypes == {<<"p">>, <<"q">>}

\* MessageProcessor.__init__
NewProcessor ==
    [counter_metrics |-> <<>>,
     timer_metrics   |-> <<>>,
     gauge_metrics   |-> <<>>,
     meter_metrics   |-> <<>>,
     plugin_metrics  |-> <<>>,
     process_timings |-> <<>>,
     by_type         |-> <<>>]

\* get_metric_names: the keys of the four maps and of the gauge entries; the
\* list it returns is in no fixed order
get_metric_names(self) ==
    {self.timer_metrics[i].key : i \in 1..Len(self.timer_metrics)}
    \cup {self.counter_metrics[i].key : i \in 1..Len(self.counter_metrics)}
    \cup {self.gauge_metrics[i].key : i \in 1..Len(self.gauge_metrics)}
    \cup {self.meter_metrics[i].key : i \in 1..Len(self.meter_metrics)}
    \cup {self.plugin_metrics[i].key : i \in 1..Len(self.plugin_metrics)}

Returned(self) == [self |-> self, failed |-> FALSE, exc |-> ""]

\* return self.fail(message)
Fail(self) == [self |-> self, failed |-> TRUE, exc |-> ""]

Raise(self, exc) == [self |-> self, failed |-> FALSE, exc |-> exc]

\* compose_counter_metric: the slot is created before the arithmetic, which
\* raises ValueError when float(rate) fails and ZeroDivisionError when the
\* rate is 0
compose_counter_metric_scaled(self, key, value, rate) ==
    LET cm == IF HasKey(self.counter_metrics, key)
              THEN self.counter_metrics
              ELSE Append(self.counter_metrics, [key |-> key, value |-> RatInt(0)])
        s1 == [self EXCEPT !.counter_metrics = cm]
    IN  IF ~IsFloat(rate) THEN Raise(s1, "ValueError")
        ELSE IF ParseFloat(rate)[1] = 0 THEN Raise(s1, "ZeroDivisionError")
        ELSE Returned([s1 EXCEPT !.counter_metrics =
                 Put(cm, [key   |-> key,
                          value |-> RatAdd(Get(cm, key).value,
                                           RatMul(value, ParseFloat(rate)))])])

compose_counter_metric(self, key, value, rate) ==
    LET cm == IF HasKey(self.counter_metrics, key)
              THEN self.counter_metrics
              ELSE Append(self.counter_metrics, [key |-> key, value |-> RatInt(0)])
        s1 == [self EXCEPT !.counter_metrics = cm]
    IN  IF ~IsFloat(rate) THEN Raise(s1, "ValueError")
        ELSE IF ParseFloat(rate)[1] = 0 THEN Raise(s1, "ZeroDivisionError")
        ELSE Returned([s1 EXCEPT !.counter_metrics =
                 Put(cm, [key   |-> key,
                          value |-> RatAdd(Get(cm, key).value,
                                           RatMul(value, RatDiv(RatInt(1), ParseFloat(rate))))])])

process_counter_metric(self, key, composite) ==
    IF ~IsFloat(composite[1]) THEN Fail(self)
    ELSE IF Len(composite) = 3
         THEN IF ~RateMatches(composite[3]) THEN Fail(self)
              ELSE compose_counter_metric(self, key, ParseFloat(composite[1]),
                                          RateGroup(composite[3]))
         ELSE compose_counter_metric(self, key, ParseFloat(composite[1]), <<"1">>)

compose_timer_metric(self, key, duration) ==
    LET tm == IF HasKey(self.timer_metrics, key)
              THEN self.timer_metrics
              ELSE Append(self.timer_metrics, [key |-> key, timers |-> <<>>])
    IN  [self EXCEPT !.timer_metrics =
            Put(tm, [key |-> key, timers |-> Append(Get(tm, key).timers, duration)])]

process_timer_metric(self, key, duration) ==
    IF ~IsFloat(duration) THEN Fail(self)
    ELSE Returned(compose_timer_metric(self, key, ParseFloat(duration)))

compose_gauge_metric_counting(self, key, value) ==
    [self EXCEPT !.gauge_metrics = Append(@, [value |-> value, key |-> key]),
                 !.counter_metrics = Put(@, [key |-> key, value |-> value])]

compose_gauge_metric(self, key, value) ==
    [self EXCEPT !.gauge_metrics = Append(@, [value |-> value, key |-> key])]

\* the except branch calls self.fail and falls through to the composer,
\* whose argument `value` was never bound: UnboundLocalError
process_gauge_metric(self, key, composite) ==
    IF Len(Split(composite, ":")) # 1 THEN Fail(self)
    ELSE IF ~IsFloat(composite)
         THEN [self |-> self, failed |-> TRUE, exc |-> "UnboundLocalError"]
         ELSE Returned(compose_gauge_metric(self, key, ParseFloat(composite)))

\* MeterMetricReporter(key, ...) and its mark(value): count += value
MeterMetricReporter_mark(reporter, value) ==
    [reporter EXCEPT !.count = RatAdd(@, value)]

compose_meter_metric(self, key, value) ==
    LET mm == IF HasKey(self.meter_metrics, key)
              THEN self.meter_metrics
              ELSE Append(self.meter_metrics, [key |-> key, count |-> RatInt(0)])
    IN  [self EXCEPT !.meter_metrics =
            Put(mm, MeterMetricReporter_mark(Get(mm, key), value))]

process_meter_metric(self, key, composite) ==
    IF Len(Split(composite, ":")) # 1 THEN Fail(self)
    ELSE IF ~IsFloat(composite)
         THEN [self |-> self, failed |-> TRUE, exc |-> "UnboundLocalError"]
         ELSE Returned(compose_meter_metric(self, key, ParseFloat(composite)))

\* process_plugin_metric: the instance map is keyed by the metric's key
\* alone; the instance's process(items) is the plugin's own code and either
\* returns or raises (plugin_raises)
process_plugin_metric(self, metric_type, key, plugin_raises) ==
    LET pm == IF HasKey(self.plugin_metrics, key)
              THEN self.plugin_metrics
              ELSE Append(self.plugin_metrics,
                          [key |-> key, factory |-> metric_type, processed |-> 0])
        s1 == [self EXCEPT !.plugin_metrics = pm]
    IN  IF plugin_raises THEN Raise(s1, "PluginError")
        ELSE Returned([s1 EXCEPT !.plugin_metrics =
                 Put(pm, [Get(pm, key) EXCEPT !.processed = @ + 1])])

\* the tail of process_message: the call's duration (0, the clock being
\* frozen) and the call itself are accrued under the metric type
AccrueTimings(self, metric_type) ==
    LET pt == IF HasKey(self.process_timings, metric_type)
              THEN self.process_timings
              ELSE Append(self.process_timings, [key |-> metric_type, duration |-> 0])
        bt == IF HasKey(self.by_type, metric_type)
              THEN self.by_type
              ELSE Append(self.by_type, [key |-> metric_type, n |-> 0])
    IN  [self EXCEPT !.process_timings = pt,
                     !.by_type = Put(bt, [key |-> metric_type,
                                          n   |-> Get(bt, metric_type).n + 1])]

process_message(self, metric_type, key, fields, plugin_raises) ==
    LET r == IF metric_type = <<"c">>
                 THEN process_counter_metric(self, key, fields)
             ELSE IF metric_type = <<"m", "s">>
                 THEN process_timer_metric(self, key, fields[1])
             ELSE IF metric_type = <<"g">>
                 THEN process_gauge_metric(self, key, fields[1])
             ELSE IF metric_type = <<"m">>
                 THEN process_meter_metric(self, key, fields[1])
             ELSE IF metric_type \in PluginTypes
                 THEN process_plugin_metric(self, metric_type, key, plugin_raises)
             ELSE Fail(self)
        known == metric_type \in {<<"c">>, <<"m", "s">>, <<"g">>, <<"m">>} \cup PluginTypes
    IN  IF r.exc # "" \/ ~known THEN r
        ELSE [r EXCEPT !.self = AccrueTimings(r.self, metric_type)]

\* BaseMessageProcessor.process
process(self, ip, message, plugin_raises) ==
    IF ~Contains(message, ":") THEN Fail(self)
    ELSE LET kd     == SplitOnce(Strip(message), ":")
             fields == Split(kd[2], "|")
             nk     == normalize_key_outcome(ip, kd[1])
         IN  IF ~Contains(kd[2], "|") THEN Fail(self)
             ELSE IF Len(fields) < 2 \/ Len(fields) > 3 THEN Fail(self)
             ELSE IF nk.exc # "" THEN Raise(self, nk.exc)
             ELSE process_message(self, fields[2], nk.key, fields, plugin_raises)

(***************************************************************************)
(* flush.  An emitted record is [kind, name, value, timestamp]; a name is  *)
(* [prefix, key, suffix, arg], standing for prefix + key + (suffix % arg). *)
(***************************************************************************)
Name(prefix, key, suffix) ==
    [prefix |-> prefix, key |-> key, suffix |-> suffix, arg |-> 0]

Record(kind, name, value, timestamp) ==
    [kind |-> kind, name |-> name, value |-> value, timestamp |-> timestamp]

\* timers.sort()
RECURSIVE Insert(_, _)
Insert(x, s) ==
    IF s = <<>> THEN <<x>>
    ELSE IF RatLeq(x, Head(s)) THEN <<x>> \o s
    ELSE <<Head(s)>> \o Insert(x, Tail(s))

RECURSIVE Sort(_)
Sort(s) == IF s = <<>> THEN <<>> ELSE Insert(Head(s), Sort(Tail(s)))

\* index = count - int(round(threshold_value * count)), with
\* threshold_value = (100 - percent) / 100.0
ThresholdIndex(ip, count, percent) ==
    count - Round(ip, (100 - percent) * count, 100)

\* the statistics flush_timer_metrics computes for a non-empty bucket;
\* timers[:0][-1] raises IndexError
TimerStats(ip, bucket, percent) ==
    LET timers == Sort(bucket)
        count  == Len(timers)
        lower  == timers[1]
        upper  == timers[count]
        index  == ThresholdIndex(ip, count, percent)
        kept   == SubSeq(timers, 1, index)
    IN  IF count > 1
        THEN IF index = 0
             THEN [exc |-> "IndexError"]
             ELSE [exc |-> "", mean |-> RatInt(RatTrunc(RatDiv(RatSum(kept), RatInt(index)))),
                   upper |-> upper, threshold_upper |-> kept[index],
                   lower |-> lower, count |-> RatInt(count)]
        ELSE [exc |-> "", mean |-> lower, upper |-> upper,
              threshold_upper |-> upper, lower |-> lower, count |-> RatInt(count)]

\* sorted(...) of the five records of a timer key: by name, and
\* ".count" < ".lower" < ".mean" < ".upper" < ".upper_<percent>"
TimerGroup(key, st, percent, timestamp) ==
    <<Record("timer", Name("stats.timers.", key, ".count"), st.count, timestamp),
      Record("timer", Name("stats.timers.", key, ".lower"), st.lower, timestamp),
      Record("timer", Name("stats.timers.", key, ".mean"), st.mean, timestamp),
      Record("timer", Name("stats.timers.", key, ".upper"), st.upper, timestamp),
      Record("timer", [Name("stats.timers.", key, ".upper_%d") EXCEPT !.arg = percent],
             st.threshold_upper, timestamp)>>

\* one step of flush_counter_metrics: the slot is reset, and the records are
\* built from the count the snapshot list(self.counter_metrics.items()) holds
CounterGroup(item, interval, timestamp) ==
    <<Record("counter", Name("stats.", item.key, ""),
             RatInt(RatTrunc(RatDiv(item.value, RatInt(interval)))), timestamp),
      Record("counter", Name("stats_counts.", item.key, ""), item.value, timestamp)>>

ResetCounter(self, key) ==
    [self EXCEPT !.counter_metrics = Put(@, [key |-> key, value |-> RatInt(0)])]

\* the bucket left as it is
ResetTimer_keeping(self, key) == self

ResetTimer(self, key) ==
    [self EXCEPT !.timer_metrics = Put(@, [key |-> key, timers |-> <<>>])]

GaugeGroup(metric, timestamp) ==
    <<Record("gauge", Name("stats.gauge.", metric.key, ".value"), metric.value, timestamp)>>

\* MeterMetricReporter.report(timestamp): of its records, the count
MeterMetricReporter_report(reporter, timestamp) ==
    <<Record("meter", Name("stats.meter.", reporter.key, ".count"), reporter.count, timestamp)>>

\* a plugin instance's flush(interval, timestamp): the plugin's own records
PluginGroup(instance, timestamp) ==
    <<Record("plugin", Name("stats.plugin.", instance.key, ""),
             RatInt(instance.processed), timestamp)>>

SummaryGroup(num_stats, timestamp) ==
    <<Record("summary", Name("statsd.", <<>>, "numStats"), RatInt(num_stats), timestamp)>>

PerMetricGroup(item, timestamp) ==
    <<Record("summary", Name("statsd.flush.", <<item.key>>, ".count"),
             RatInt(item.events), timestamp),
      Record("summary", Name("statsd.flush.", <<item.key>>, ".duration"),
             RatInt(item.duration * 1000), timestamp)>>

ReceiveGroup(item, n, timestamp) ==
    <<Record("summary", Name("statsd.receive.", item.key, ".count"), RatInt(n), timestamp),
      Record("summary", Name("statsd.receive.", item.key, ".duration"),
             RatInt(item.duration * 1000), timestamp)>>

KeyList(d) == [i \in 1..Len(d) |-> d[i].key]

\* the generator object flush(interval, percent) returns, before its first
\* next(); interval is in milliseconds, a multiple of 1000
NewFlush(interval, percent, timestamp) ==
    [pc |-> "start", interval |-> interval \div 1000, percent |-> percent,
     timestamp |-> timestamp, snap |-> <<>>, glen |-> 0, gi |-> 0,
     events |-> 0, num_stats |-> 0, per_metric |-> <<>>, exc |-> ""]

NoFlush == [NewFlush(1000, 0, 0) EXCEPT !.pc = "idle"]

\* the order of the loops in the body of flush
FlushOrder_reordered == <<"counter", "gauge", "timer", "meter", "plugin", "summary">>

FlushOrder == <<"counter", "timer", "gauge", "meter", "plugin", "summary">>

KindAfter(kind) == FlushOrder[IndexOf(FlushOrder, kind) + 1]

\* what the loop of one kind iterates over.  A dict is iterated over
\* list(d.items()) or list(d.values()), a snapshot: of the counters the
\* snapshot holds the counts; of the timers, meters and plugins it holds
\* references to the very lists and objects the dicts hold, so what a step
\* reads is their current content.  The gauge deque is iterated itself.
LoopOver_rest(self, kind) ==
    IF kind = "counter" /\ self.counter_metrics # <<>> THEN Tail(self.counter_metrics)
    ELSE IF kind = "counter" THEN <<>>
    ELSE IF kind = "timer" THEN KeyList(self.timer_metrics)
    ELSE IF kind = "meter" THEN KeyList(self.meter_metrics)
    ELSE IF kind = "plugin" THEN KeyList(self.plugin_metrics)
    ELSE <<>>

LoopOver(self, kind) ==
    IF kind = "counter" THEN self.counter_metrics
    ELSE IF kind = "timer" THEN KeyList(self.timer_metrics)
    ELSE IF kind = "meter" THEN KeyList(self.meter_metrics)
    ELSE IF kind = "plugin" THEN KeyList(self.plugin_metrics)
    ELSE <<>>

EnterLoop(self, gen, kind) ==
    [gen EXCEPT !.pc = kind, !.snap = LoopOver(self, kind),
                !.glen = IF kind = "gauge" THEN Len(self.gauge_metrics) ELSE @,
                !.gi = IF kind = "gauge" THEN 1 ELSE @]

\* the loop over one kind ended: num_stats += events and
\* per_metric[kind] = (events, duration)
NextKind_overwriting(gen) ==
    [gen EXCEPT !.events = 0,
                !.num_stats = gen.events,
                !.per_metric = Append(@, [key |-> gen.pc, events |-> gen.events,
                                          duration |-> 0])]

NextKind(gen) ==
    [gen EXCEPT !.events = 0,
                !.num_stats = @ + gen.events,
                !.per_metric = Append(@, [key |-> gen.pc, events |-> gen.events,
                                          duration |-> 0])]

EndLoop(self, gen) == EnterLoop(self, NextKind(gen), KindAfter(gen.pc))

\* a group is yielded; events += 1 follows its last record, before anything
\* else the generator does
Yield(self, gen, group) ==
    [self |-> self, gen |-> [gen EXCEPT !.events = @ + 1], group |-> group]

Step(gen) == [gen EXCEPT !.snap = Tail(@)]

Throw(self, gen, exc) ==
    [self |-> self, gen |-> [gen EXCEPT !.pc = "raised", !.exc = exc], group |-> <<>>]

\* one step of the loop of flush_counter_metrics
CounterStep(self, gen) ==
    Yield(ResetCounter(self, Head(gen.snap).key), Step(gen),
          CounterGroup(Head(gen.snap), gen.interval, gen.timestamp))

\* one step of the loop of flush_timer_metrics over a non-empty bucket: the
\* bucket is emptied before the statistics are computed
TimerStep(self, gen, ip) ==
    LET key == Head(gen.snap)
        st  == TimerStats(ip, Get(self.timer_metrics, key).timers, gen.percent)
    IN  IF st.exc # "" THEN Throw(ResetTimer(self, key), gen, st.exc)
        ELSE Yield(ResetTimer(self, key), Step(gen),
                   TimerGroup(key, st, gen.percent, gen.timestamp))

\* one step of the loop of flush_gauge_metrics
GaugeStep_draining(self, gen) ==
    Yield([self EXCEPT !.gauge_metrics = Tail(@)], [gen EXCEPT !.glen = @ - 1],
          GaugeGroup(self.gauge_metrics[gen.gi], gen.timestamp))

GaugeStep(self, gen) ==
    Yield(self, [gen EXCEPT !.gi = @ + 1],
          GaugeGroup(self.gauge_metrics[gen.gi], gen.timestamp))

\* one step of the loop of flush_meter_metrics
MeterStep(self, gen) ==
    Yield(self, Step(gen),
          MeterMetricReporter_report(Get(self.meter_metrics, Head(gen.snap)),
                                     gen.timestamp))

\* one step of the loop of flush_plugin_metrics; the plugin's flush may raise
PluginStep(self, gen, plugin_raises) ==
    IF plugin_raises THEN Throw(self, gen, "PluginError")
    ELSE Yield(self, Step(gen),
               PluginGroup(Get(self.plugin_metrics, Head(gen.snap)), gen.timestamp))

\* the generator runs from where it is suspended to its next group of
\* records, to its end (pc "done") or to an exception (pc "raised").  The
\* iterator of the gauge deque raises RuntimeError once the deque has been
\* appended to since the iterator was made.
RECURSIVE Run(_, _, _, _)
Run(self, gen, ip, plugin_raises) ==
    CASE gen.pc = "start" ->
           Run(self, EnterLoop(self, gen, FlushOrder[1]), ip, plugin_raises)
      [] gen.pc = "counter" ->
           IF gen.snap = <<>> THEN Run(self, EndLoop(self, gen), ip, plugin_raises)
           ELSE CounterStep(self, gen)
      [] gen.pc = "timer" ->
           IF gen.snap = <<>> THEN Run(self, EndLoop(self, gen), ip, plugin_raises)
           ELSE IF Len(Get(self.timer_metrics, Head(gen.snap)).timers) = 0
           THEN Run(self, Step(gen), ip, plugin_raises)
           ELSE TimerStep(self, gen, ip)
      [] gen.pc = "gauge" ->
           IF Len(self.gauge_metrics) # gen.glen THEN Throw(self, gen, "RuntimeError")
           ELSE IF gen.gi > gen.glen THEN Run(self, EndLoop(self, gen), ip, plugin_raises)
           ELSE GaugeStep(self, gen)
      [] gen.pc = "meter" ->
           IF gen.snap = <<>> THEN Run(self, EndLoop(self, gen), ip, plugin_raises)
           ELSE MeterStep(self, gen)
      [] gen.pc = "plugin" ->
           IF gen.snap = <<>> THEN Run(self, EndLoop(self, gen), ip, plugin_raises)
           ELSE PluginStep(self, gen, plugin_raises)
      [] gen.pc = "summary" ->
           [self |-> self,
            gen |-> [gen EXCEPT !.pc = "per_metric", !.snap = gen.per_metric],
            group |-> SummaryGroup(gen.num_stats, gen.timestamp)]
      [] gen.pc = "per_metric" ->
           IF gen.snap = <<>>
           THEN Run(self, [gen EXCEPT !.pc = "receive", !.snap = self.process_timings],
                    ip, plugin_raises)
           ELSE [self |-> self, gen |-> Step(gen),
                 group |-> PerMetricGroup(Head(gen.snap), gen.timestamp)]
      [] gen.pc = "receive" ->
           IF gen.snap = <<>>
           THEN [self |-> [self EXCEPT !.process_timings = <<>>, !.by_type = <<>>],
                 gen |-> [gen EXCEPT !.pc = "done"], group |-> <<>>]
           ELSE [self |-> self, gen |-> Step(gen),
                 group |-> ReceiveGroup(Head(gen.snap),
                                        Get(self.by_type, Head(gen.snap).key).n,
                                        gen.timestamp)]

(***************************************************************************)
(* The state: the processor, the flush generator in progress (one at a     *)
(* time), the records of the current group that the generator has still to *)
(* yield, the records the consumer has received from the current flush,    *)
(* and the outcome of the last call of process.  The interpreter that runs *)
(* a call is an input of the call.  The remaining variables are history    *)
(* variables the properties read.                                          *)
(***************************************************************************)
VARIABLES self, gen, pending, out, ret, nproc, nflush, ninter, hist,
          nk_raw, nk_once, nk_twice, nk_pc

\* the client: whether it has a connection, the lines its metrics have
\* pipelined, the packets handed to the connection's write, the exception
\* flush ended with, and its position
VARIABLES cl_conn, cl_lines, cl_written, cl_exc, cl_pc

\* the client's reports: its namespace, its metrics by fully qualified name
\* (_metrics), the bodies its metrics have handed to send, and the
\* arguments of the calls of report made
VARIABLES cl_namespace, cl_metrics, cl_sent, cl_calls

pvars == <<self, gen, pending, out, ret, nproc, nflush, ninter, hist>>

nvars == <<nk_raw, nk_once, nk_twice, nk_pc>>

cvars == <<cl_conn, cl_lines, cl_written, cl_exc, cl_pc,
           cl_namespace, cl_metrics, cl_sent, cl_calls>>

vars == <<pvars, nvars, cvars>>

\* calls of process in one run
MaxProcess == 3

\* calls of flush in one run
MaxFlush == 2

\* calls of process in one run made while a flush is in progress
MaxInterleaved == 1

\* what the frozen wall clock reads
FrozenClock == 1000

\* the flush parameters drawn: interval in milliseconds, percent
Intervals == {2000}

Percents == {90}

\* the payloads drawn while flushes run, and those among them of a plugin's
\* metric type
Payloads ==
    { <<"b", ":", "3", "|", "c">>,
      <<"a", ":", "1", "|", "c", "|", "@", "0", ".", "5">>,
      <<"a", ":", "1", ".", "5", "|", "m", "s">>,
      <<"a", ":", "4", "|", "g">>,
      <<"a", ":", "2", "|", "m">>,
      <<"a", ":", "1", "|", "p">> }

IsPluginPayload(m) ==
    /\ Contains(m, ":")
    /\ Contains(SplitOnce(m, ":")[2], "|")
    /\ Split(SplitOnce(m, ":")[2], "|")[2] \in PluginTypes

PluginPayloads == {m \in Payloads : IsPluginPayload(m)}

\* the payloads drawn for process on its own: well-formed ones of every
\* type, and malformed ones of every kind
IngestPayloads ==
    Payloads \cup
    { <<"a", ":", "1", "|", "c">>,
      <<"a", ":", "x", "|", "c">>,
      <<"a", ":", "1", "|", "c", "|", "@", "0">>,
      <<"b", ":", "1", "|", "c", "|", "@", ".">>,
      <<"a", ":", "1", "|", "c", "|", "0", ".", "5">>,
      <<"a", ":", "x", "|", "m", "s">>,
      <<"a", ":", "x", "|", "g">>,
      <<"a", ":", "1", ":", "2", "|", "g">>,
      <<"a", ":", "x", "|", "m">>,
      <<"a", ":", "1", "|", "q">>,
      <<"a", ":", "1", "|", "z">>,
      <<"a", "$", ":", "1", "|", "c">>,
      <<"a", " ", "1", "|", "c">>,
      <<"a", ":", "1">>,
      <<"a", ":", "1", "|", "c", "|", "@", "1", "|", "x">> }

\* history: for every counter and timer key, what process accepted for it
\* since the key's records were last emitted (winC: the sum of
\* value * (1 / rate); winT: the number of durations); every gauge sample
\* accepted; the same three as they were when the current flush was called;
\* the gauge series and the meter records the flush before it emitted;
\* whether process was called since the current flush was called; for every
\* counter or timer key the current flush has emitted, what had been
\* accepted for it (value) and what its slot or bucket held once emitted
\* (left); the normalized keys of all the samples accepted; for every
\* metric type, the calls of process that accepted a sample of it since the
\* last flush that ran to its end (recv), and the same as it was when that
\* flush ended (recvDue); and whether process was called after the current
\* flush ended (later)
MetricTypes == {<<"c">>, <<"m", "s">>, <<"g">>, <<"m">>} \cup PluginTypes

NoHistory ==
    [winC |-> <<>>, winT |-> <<>>, accG |-> <<>>,
     startC |-> <<>>, startT |-> <<>>, startG |-> <<>>, prevG |-> <<>>,
     prevM |-> <<>>, names |-> {},
     interleaved |-> FALSE, exp |-> <<>>,
     recv |-> [t \in MetricTypes |-> 0], recvDue |-> [t \in MetricTypes |-> 0],
     later |-> FALSE]

ProcInit ==
    /\ self = NewProcessor
    /\ gen = NoFlush
    /\ pending = <<>>
    /\ out = <<>>
    /\ ret = [failed |-> FALSE, exc |-> "", called |-> FALSE, accepted |-> FALSE]
    /\ nproc = 0
    /\ nflush = 0
    /\ ninter = 0
    /\ hist = NoHistory

NormIdle ==
    /\ nk_raw = <<>>
    /\ nk_once = [exc |-> "unset", key |-> <<>>]
    /\ nk_twice = [exc |-> "unset", key |-> <<>>]
    /\ nk_pc = "off"

\* an optional str argument: None, or the characters of the string
None == [none |-> TRUE, s |-> <<>>]

Some(s) == [none |-> FALSE, s |-> s]

NoReports ==
    /\ cl_metrics = <<>>
    /\ cl_sent = <<>>
    /\ cl_calls = <<>>

ClientIdle ==
    /\ cl_namespace = Some(<<>>)
    /\ NoReports
    /\ cl_conn = FALSE
    /\ cl_lines = <<>>
    /\ cl_written = <<>>
    /\ cl_exc = ""
    /\ cl_pc = "off"

Init ==
    /\ ProcInit
    /\ NormIdle
    /\ ClientIdle

\* the fields of an accepted payload, parsed as process parses them
SampleKey(message) == normalize_key(SplitOnce(Strip(message), ":")[1])

SampleFields(message) == Split(SplitOnce(Strip(message), ":")[2], "|")

SampleType(message) == SampleFields(message)[2]

SampleValue(message) == ParseFloat(SampleFields(message)[1])

SampleRate(message) ==
    IF Len(SampleFields(message)) = 3
    THEN ParseFloat(RateGroup(SampleFields(message)[3]))
    ELSE RatInt(1)

WinGet(w, k) == IF HasKey(w, k) THEN Get(w, k).value ELSE RatInt(0)

HistAccept(h, message) ==
    LET k == SampleKey(message)
        t == SampleType(message)
        g == [h EXCEPT !.names = @ \cup {k}, !.recv[t] = @ + 1]
    IN  IF t = <<"c">>
        THEN [g EXCEPT !.winC = Put(@, [key |-> k,
                 value |-> RatAdd(WinGet(h.winC, k),
                                  RatMul(SampleValue(message),
                                         RatDiv(RatInt(1), SampleRate(message))))])]
        ELSE IF t = <<"m", "s">>
        THEN [g EXCEPT !.winT = Put(@, [key |-> k,
                 value |-> RatAdd(WinGet(h.winT, k), RatInt(1))])]
        ELSE IF t = <<"g">>
        THEN [g EXCEPT !.accG = Append(@, [value |-> SampleValue(message), key |-> k])]
        ELSE g

FlushActive == gen.pc \notin {"idle", "done", "raised", "abandoned"}

\* the records of the current flush that are gauge records, as the
\* (value, key) pairs of the gauge sequence
RECURSIVE GaugesOf(_)
GaugesOf(records) ==
    IF records = <<>> THEN <<>>
    ELSE IF Head(records).kind = "gauge"
         THEN <<[value |-> Head(records).value, key |-> Head(records).name.key]>>
              \o GaugesOf(Tail(records))
         ELSE GaugesOf(Tail(records))

\* the records of the current flush that are meter records
MetersOf(records) == SelectSeq(records, LAMBDA r : r.kind = "meter")

\* Before its first next() the generator has run nothing; between the
\* records of one group, and between the statsd.numStats record and the
\* last statsd.flush.* record, it reads and writes nothing of the processor.
\* A call of process at one of these points has the effect it has before the
\* call of flush, or after the last of these records, where the model
\* places it.
ProcessPoint ==
    /\ pending = <<>>
    /\ gen.pc # "start"
    /\ ~(gen.pc = "per_metric" /\ gen.snap # <<>>)

\* the caller hands one payload to process; a plugin's process(items) may
\* raise
Process(ip, message, plugin_raises) ==
    /\ nproc < MaxProcess
    /\ ProcessPoint
    /\ FlushActive => ninter < MaxInterleaved
    /\ ninter' = IF FlushActive THEN ninter + 1 ELSE ninter
    /\ LET r        == process(self, ip, message, plugin_raises)
           accepted == r.exc = "" /\ ~r.failed
           h        == [hist EXCEPT !.interleaved = TRUE, !.later = ~FlushActive]
       IN  /\ self' = r.self
           /\ ret' = [failed |-> r.failed, exc |-> r.exc, called |-> TRUE,
                      accepted |-> accepted]
           /\ hist' = IF accepted THEN HistAccept(h, message) ELSE h
    /\ nproc' = nproc + 1
    /\ UNCHANGED <<gen, pending, out, nflush, nvars, cvars>>

\* the caller calls flush(interval, percent): a generator, not yet run
FlushStart(interval, percent) ==
    /\ ~FlushActive
    /\ nflush < MaxFlush
    /\ gen' = NewFlush(interval, percent, FrozenClock)
    /\ pending' = <<>>
    /\ out' = <<>>
    /\ nflush' = nflush + 1
    /\ hist' = [hist EXCEPT !.startC = hist.winC, !.startT = hist.winT,
                            !.startG = hist.accG, !.prevG = GaugesOf(out),
                            !.prevM = MetersOf(out),
                            !.interleaved = FALSE, !.later = FALSE, !.exp = <<>>]
    /\ UNCHANGED <<self, ret, nproc, ninter, nvars, cvars>>

\* the keys whose records a group carries reset their windows
HistEmit(h, group, after) ==
    IF group = <<>> \/ group[1].kind \notin {"counter", "timer"} THEN h
    ELSE LET k == group[1].name.key
         IN  IF group[1].kind = "counter"
             THEN [h EXCEPT !.exp = Append(@, [kind |-> "counter", key |-> k,
                                               value |-> WinGet(h.winC, k),
                                               left |-> Get(after.counter_metrics, k).value]),
                            !.winC = Put(@, [key |-> k,
                                             value |-> Get(after.counter_metrics, k).value])]
             ELSE [h EXCEPT !.exp = Append(@, [kind |-> "timer", key |-> k,
                                               value |-> WinGet(h.winT, k),
                                               left |-> RatInt(Len(Get(after.timer_metrics, k).timers))]),
                            !.winT = Put(@, [key |-> k,
                                             value |-> RatInt(Len(Get(after.timer_metrics, k).timers))])]

\* the consumer calls next() on the generator: it receives the next record
\* of the group being yielded, or the generator runs on to its next group
FlushNext(ip, plugin_raises) ==
    /\ FlushActive
    /\ IF pending # <<>>
       THEN /\ out' = Append(out, Head(pending))
            /\ pending' = Tail(pending)
            /\ UNCHANGED <<self, gen, hist>>
       ELSE LET r == Run(self, gen, ip, plugin_raises)
            IN  /\ self' = r.self
                /\ gen' = r.gen
                /\ out' = IF r.group = <<>> THEN out ELSE Append(out, Head(r.group))
                /\ pending' = IF r.group = <<>> THEN <<>> ELSE Tail(r.group)
                /\ hist' = IF r.gen.pc = "done"
                            THEN [hist EXCEPT !.recvDue = hist.recv,
                                              !.recv = [t \in MetricTypes |-> 0]]
                            ELSE HistEmit(hist, r.group, r.self)
    /\ UNCHANGED <<ret, nproc, nflush, ninter, nvars, cvars>>

\* the consumer drops the generator before its end, and the generator object
\* is gone; dropped elsewhere than at one of these points, it leaves the
\* processor as it does dropped at the point before
Abandon ==
    /\ FlushActive
    /\ ProcessPoint
    /\ gen' = [NoFlush EXCEPT !.pc = "abandoned"]
    /\ UNCHANGED <<self, pending, out, ret, nproc, nflush, ninter, hist, nvars, cvars>>

Next ==
    \/ \E ip \in Interpreters, m \in Payloads : Process(ip, m, FALSE)
    \/ \E ip \in Interpreters, m \in PluginPayloads : Process(ip, m, TRUE)
    \/ \E i \in Intervals, p \in Percents : FlushStart(i, p)
    \/ \E ip \in Interpreters, pr \in BOOLEAN : FlushNext(ip, pr)
    \/ Abandon

Spec == Init /\ [][Next]_vars

\* process on its own, no flush in progress
IngestNext ==
    \/ \E ip \in Interpreters, m \in IngestPayloads : Process(ip, m, FALSE)
    \/ \E ip \in Interpreters, m \in {x \in IngestPayloads : IsPluginPayload(x)} :
          Process(ip, m, TRUE)

SpecIngest == Init /\ [][IngestNext]_vars

(***************************************************************************)
(* The key normalizer on its own: a raw key is drawn, normalize_key is     *)
(* applied once, then applied again to its own result.                     *)
(***************************************************************************)
\* longest raw key drawn
MaxKeyLen == 3

\* the bytes raw keys are drawn from: safe ones, whitespace, a slash and an
\* unsafe byte
RawKeyBytes == {"a", "0", "_", "-", ".", " ", "\t", "/", "$"}

RECURSIVE SeqsUpTo(_, _)
SeqsUpTo(S, n) ==
    IF n = 0 THEN {<<>>}
    ELSE LET shorter == SeqsUpTo(S, n - 1)
         IN  shorter \cup {Append(s, c) : s \in {t \in shorter : Len(t) = n - 1}, c \in S}

RawKeys == SeqsUpTo(RawKeyBytes, MaxKeyLen)

NormInit ==
    /\ ProcInit
    /\ nk_raw \in RawKeys
    /\ nk_once = [exc |-> "unset", key |-> <<>>]
    /\ nk_twice = [exc |-> "unset", key |-> <<>>]
    /\ nk_pc = "raw"
    /\ ClientIdle

NormalizeOnce(ip) ==
    /\ nk_pc = "raw"
    /\ nk_once' = normalize_key_outcome(ip, nk_raw)
    /\ nk_pc' = "once"
    /\ UNCHANGED <<pvars, nk_raw, nk_twice, cvars>>

NormalizeTwice(ip) ==
    /\ nk_pc = "once"
    /\ nk_once.exc = ""
    /\ nk_twice' = normalize_key_outcome(ip, nk_once.key)
    /\ nk_pc' = "twice"
    /\ UNCHANGED <<pvars, nk_raw, nk_once, cvars>>

NormNext ==
    \/ \E ip \in Interpreters : NormalizeOnce(ip)
    \/ \E ip \in Interpreters : NormalizeTwice(ip)

SpecNorm == NormInit /\ [][NormNext]_vars

(***************************************************************************)
(* The client.  A string is a sequence of pieces: a run of len characters  *)
(* other than the newline, or one newline.  The lines the pipelined        *)
(* metrics hold are an input; Metrics.flush coalesces them into packets    *)
(* and hands each to write.                                                *)
(***************************************************************************)
\* lines pipelined before one call of flush
MaxLines == 3

\* the length flush compares a packet with
MaxPacket == 512

LineLengths == {1, 255, 256, 510, 511, 600}

Line(n) == <<[nl |-> FALSE, len |-> n]>>

Newline == <<[nl |-> TRUE, len |-> 1]>>

RECURSIVE StrLen(_)
StrLen(s) == IF s = <<>> THEN 0 ELSE Head(s).len + StrLen(Tail(s))

RECURSIVE LinesOf(_)
LinesOf(lens) == IF lens = <<>> THEN <<>> ELSE <<Line(Head(lens))>> \o LinesOf(Tail(lens))

PipelinedLines == {LinesOf(lens) : lens \in SeqsUpTo(LineLengths, MaxLines)}

\* write: with a connection the data is encoded and handed to it
Metrics_write(conn, written, data) == IF conn THEN Append(written, data) ELSE written

\* the loop of flush: data is the packet being built, _data the lines left
RECURSIVE Coalesce(_, _, _, _)
Coalesce(conn, data, _data, written) ==
    IF _data = <<>>
    THEN Metrics_write(conn, written, data)
    ELSE LET stat == Head(_data)
         IN  IF StrLen(stat) + StrLen(data) + 1 >= MaxPacket
             THEN Coalesce(conn, stat, Tail(_data), Metrics_write(conn, written, data))
             ELSE Coalesce(conn, data \o Newline \o stat, Tail(_data), written)

\* popleft of an empty deque raises
Metrics_flush(conn, _data) ==
    IF _data = <<>>
    THEN [exc |-> "IndexError", written |-> <<>>]
    ELSE [exc |-> "", written |-> Coalesce(conn, Head(_data), Tail(_data), <<>>)]

ClientInit ==
    /\ ProcInit
    /\ NormIdle
    /\ cl_conn \in BOOLEAN
    /\ cl_namespace = Some(<<>>)
    /\ NoReports
    /\ cl_lines \in PipelinedLines
    /\ cl_written = <<>>
    /\ cl_exc = ""
    /\ cl_pc = "pipelined"

ClientFlush ==
    /\ cl_pc = "pipelined"
    /\ cl_written' = Metrics_flush(cl_conn, cl_lines).written
    /\ cl_exc' = Metrics_flush(cl_conn, cl_lines).exc
    /\ cl_pc' = "flushed"
    /\ UNCHANGED <<pvars, nvars, cl_conn, cl_lines, cl_namespace, cl_metrics, cl_sent, cl_calls>>

ClientNext == ClientFlush

SpecClient == ClientInit /\ [][ClientNext]_vars

(***************************************************************************)
(* The client's report.  A str is the sequence of its characters; a        *)
(* GenericMetric is [key, name] with key the metric type it was built      *)
(* with; what mark hands to send is recorded with the metric's name.       *)
(***************************************************************************)
\* calls of report in one run
MaxReport == 3

Namespaces == {None, Some(<<>>), Some(<<"n">>)}

ReportNames == {None, Some(<<"a">>), Some(<<"b">>), Some(<<"n", ".", "a">>)}

ReportValues == {<<"1">>, <<"2", "5">>}

ReportTypes == {<<"p">>, <<"q">>}

ReportExtras == {None, Some(<<"x">>)}

fully_qualify_name(namespace, name) ==
    LET fully_qualified_name == IF ~namespace.none THEN namespace.s ELSE <<>>
    IN  IF ~name.none
        THEN IF ~namespace.none /\ Len(namespace.s) > 0
             THEN fully_qualified_name \o <<".">> \o name.s
             ELSE name.s
        ELSE fully_qualified_name

\* GenericMetric.mark: "%s|%s" % (value, self.key), or with extra
GenericMetric_mark(metric, value, extra) ==
    IF extra.none
    THEN value \o <<"|">> \o metric.key
    ELSE value \o <<"|">> \o metric.key \o <<"|">> \o extra.s

\* Metrics.report: the metric of the name is built on first sight of the
\* name, and marked
Metrics_report(_metrics, namespace, name, value, metric_type, extra) ==
    LET fqn == fully_qualify_name(namespace, name)
        ms  == IF HasKey(_metrics, fqn) THEN _metrics
               ELSE Append(_metrics, [key |-> fqn, metric |-> [key |-> metric_type, name |-> fqn]])
    IN  [_metrics |-> ms,
         sent |-> [name |-> fqn,
                   body |-> GenericMetric_mark(Get(ms, fqn).metric, value, extra)]]

ReportInit ==
    /\ ProcInit
    /\ NormIdle
    /\ cl_conn = TRUE
    /\ cl_lines = <<>>
    /\ cl_written = <<>>
    /\ cl_exc = ""
    /\ cl_pc = "off"
    /\ cl_namespace \in Namespaces
    /\ NoReports

Report(name, value, metric_type, extra) ==
    /\ Len(cl_calls) < MaxReport
    /\ LET r == Metrics_report(cl_metrics, cl_namespace, name, value, metric_type, extra)
       IN  /\ cl_metrics' = r._metrics
           /\ cl_sent' = Append(cl_sent, r.sent)
    /\ cl_calls' = Append(cl_calls, [name |-> name, value |-> value,
                                     metric_type |-> metric_type, extra |-> extra])
    /\ UNCHANGED <<pvars, nvars, cl_conn, cl_lines, cl_written, cl_exc, cl_pc, cl_namespace>>

ReportNext ==
    \E name \in ReportNames, value \in ReportValues,
       metric_type \in ReportTypes, extra \in ReportExtras :
        Report(name, value, metric_type, extra)

SpecReport == ReportInit /\ [][ReportNext]_vars

(***************************************************************************)
(* Timers under every kind of percent: durations of one key are processed  *)
(* and flushed with a percent drawn from 0..100.                           *)
(***************************************************************************)
TimerPayloads ==
    { <<"a", ":", "1", "0", "0", "|", "m", "s">>,
      <<"a", ":", "2", "0", "0", "|", "m", "s">>,
      <<"a", ":", "3", "0", "0", "|", "m", "s">>,
      <<"a", ":", "1", ".", "5", "|", "m", "s">>,
      <<"a", ":", "-", "1", ".", "5", "|", "m", "s">> }

TimerPercents == {0, 25, 50, 75, 90, 100}

TimersNext ==
    \/ \E ip \in Interpreters, m \in TimerPayloads : Process(ip, m, FALSE)
    \/ \E i \in Intervals, p \in TimerPercents : FlushStart(i, p)
    \/ \E ip \in Interpreters : FlushNext(ip, FALSE)

SpecTimers == Init /\ [][TimersNext]_vars

(***************************************************************************)
(* Meters: marks of two keys, of either sign, are processed and flushed.   *)
(***************************************************************************)
MeterPayloads ==
    { <<"a", ":", "2", "|", "m">>,
      <<"a", ":", "-", "3", "|", "m">>,
      <<"b", ":", "1", "|", "m">> }

MetersNext ==
    \/ \E ip \in Interpreters, m \in MeterPayloads : Process(ip, m, FALSE)
    \/ \E i \in Intervals, p \in Percents : FlushStart(i, p)
    \/ \E ip \in Interpreters : FlushNext(ip, FALSE)

SpecMeters == Init /\ [][MetersNext]_vars

(***************************************************************************)
(* Partial flushes: the consumer stops reading a flush after any number of *)
(* records, between two records of one group as well, and process is       *)
(* called between flushes only.                                            *)
(***************************************************************************)
\* the consumer drops the generator after any record; the records of the
\* group in hand that it has not received are never delivered
Drop ==
    /\ FlushActive
    /\ gen' = [NoFlush EXCEPT !.pc = "abandoned"]
    /\ pending' = <<>>
    /\ UNCHANGED <<self, out, ret, nproc, nflush, ninter, hist, nvars, cvars>>

PartialNext ==
    \/ \E ip \in Interpreters, m \in Payloads : ~FlushActive /\ Process(ip, m, FALSE)
    \/ \E i \in Intervals, p \in Percents : FlushStart(i, p)
    \/ \E ip \in Interpreters : FlushNext(ip, FALSE)
    \/ Drop

SpecPartial == Init /\ [][PartialNext]_vars

(***************************************************************************)
(* Properties.  Emitted is what the current flush has handed over or is    *)
(* handing over: the records received and the rest of the group in hand.   *)
(***************************************************************************)
Emitted == out \o pending

IsPrefix(s, t) == Len(s) <= Len(t) /\ SubSeq(t, 1, Len(s)) = s

HasRecord(records, name) == \E i \in 1..Len(records) : records[i].name = name

ValueOf(records, name) ==
    records[CHOOSE i \in 1..Len(records) : records[i].name = name].value

CountWhere(records, kind, prefix, suffix) ==
    Cardinality({i \in 1..Len(records) : /\ records[i].kind = kind
                                         /\ records[i].name.prefix = prefix
                                         /\ records[i].name.suffix = suffix})

TimerValue(records, key, suffix) ==
    records[CHOOSE i \in 1..Len(records) :
               /\ records[i].kind = "timer"
               /\ records[i].name.key = key
               /\ records[i].name.suffix = suffix].value

FlushDone == gen.pc = "done"

\* C1, as amended: a fully consumed flush has emitted, for every counter
\* key, stats_counts.<k> equal to the sum of value * (1 / rate) over the
\* samples accepted for k between its last emission and the call of flush,
\* and stats.<k> equal to that sum divided by the interval in seconds and
\* truncated toward zero to an integer; and the slot of k held 0 once
\* emitted.
C1_CounterRateTruncated ==
    FlushDone =>
        \A i \in 1..Len(hist.exp) :
            hist.exp[i].kind = "counter" =>
                /\ ValueOf(out, Name("stats_counts.", hist.exp[i].key, ""))
                     = WinGet(hist.startC, hist.exp[i].key)
                /\ ValueOf(out, Name("stats.", hist.exp[i].key, ""))
                     = RatInt(RatTrunc(RatDiv(WinGet(hist.startC, hist.exp[i].key),
                                              RatInt(gen.interval))))
                /\ hist.exp[i].left = RatInt(0)

\* C1, witness: a fully consumed flush of 2 seconds, called after 3 was
\* accepted for a counter key, has emitted stats_counts = 3 and stats = 1
\* for the key.
C1_Witness ==
    /\ FlushDone
    /\ \E i \in 1..Len(hist.exp) :
          /\ hist.exp[i].kind = "counter"
          /\ WinGet(hist.startC, hist.exp[i].key) = RatInt(3)
          /\ ValueOf(out, Name("stats_counts.", hist.exp[i].key, "")) = RatInt(3)
          /\ ValueOf(out, Name("stats.", hist.exp[i].key, "")) = RatInt(1)

\* C1, as stated: the same, with stats.<k> equal to the sum divided by the
\* interval in seconds.
C1_CounterRateExact ==
    FlushDone =>
        \A i \in 1..Len(hist.exp) :
            hist.exp[i].kind = "counter" =>
                /\ ValueOf(out, Name("stats_counts.", hist.exp[i].key, ""))
                     = WinGet(hist.startC, hist.exp[i].key)
                /\ ValueOf(out, Name("stats.", hist.exp[i].key, ""))
                     = RatDiv(WinGet(hist.startC, hist.exp[i].key), RatInt(gen.interval))
                /\ hist.exp[i].left = RatInt(0)

\* C2: with calls of process interleaved between the steps of a flush, what
\* a flush emits for a counter or timer key, together with what the key's
\* slot or bucket holds once emitted, is all that was accepted for the key
\* since its last emission: no sample is lost by the reset, none is counted
\* twice.
C2_NoSampleLostOrDuplicated ==
    \A i \in 1..Len(hist.exp) :
        LET e == hist.exp[i]
        IN  IF e.kind = "counter"
            THEN RatAdd(ValueOf(Emitted, Name("stats_counts.", e.key, "")), e.left) = e.value
            ELSE RatAdd(TimerValue(Emitted, e.key, ".count"), e.left) = e.value

\* C3: every call of process returns to its caller without raising.
C3_ProcessNeverRaises == ret.exc = ""

\* C4: the records a flush emits for a timer key satisfy
\* lower <= mean <= upper_<percent> <= upper, and count is the number of
\* durations accepted for the key since its last emission.
C4_TimerStatisticsOrdered ==
    \A i \in 1..Len(hist.exp) :
        LET e == hist.exp[i]
        IN  e.kind = "timer" =>
              /\ RatLeq(TimerValue(Emitted, e.key, ".lower"), TimerValue(Emitted, e.key, ".mean"))
              /\ RatLeq(TimerValue(Emitted, e.key, ".mean"), TimerValue(Emitted, e.key, ".upper_%d"))
              /\ RatLeq(TimerValue(Emitted, e.key, ".upper_%d"), TimerValue(Emitted, e.key, ".upper"))
              /\ TimerValue(Emitted, e.key, ".count") = e.value

GaugeLoopEnded == gen.pc \in {"meter", "plugin", "summary", "per_metric", "receive", "done"}

\* C5: the gauge sequence is, at all times, the sequence of the gauge
\* samples accepted, whatever flushes ran; and a flush whose gauge loop has
\* ended has emitted one stats.gauge.<key>.value record per entry of the
\* sequence, in insertion order: every sample accepted before the flush was
\* called, all of them when process was not called since, and the series of
\* the flush before when that flush emitted as many.
C5_GaugesRetained ==
    /\ self.gauge_metrics = hist.accG
    /\ GaugeLoopEnded =>
          /\ IsPrefix(hist.startG, GaugesOf(Emitted))
          /\ IsPrefix(GaugesOf(Emitted), hist.accG)
          /\ ~hist.interleaved => GaugesOf(Emitted) = hist.accG
          /\ Len(hist.prevG) = Len(hist.accG) => GaugesOf(Emitted) = hist.prevG

\* C5, witness: the second of two flushes has ended and has emitted the two
\* gauge records, of one key, that the first had emitted.
C5_Witness ==
    /\ nflush = 2
    /\ FlushDone
    /\ Len(hist.accG) = 2
    /\ hist.accG[1].key = hist.accG[2].key
    /\ GaugesOf(out) = hist.prevG
    /\ GaugesOf(out) = hist.accG

FlushCount(kind) == ValueOf(out, Name("statsd.flush.", <<kind>>, ".count"))

\* C6: in a fully consumed flush statsd.numStats is the sum of the five
\* statsd.flush.<k>.count values, and each of these is the number of groups
\* its kind produced in the flush.
C6_NumStatsIsSumOfCounts ==
    FlushDone =>
        /\ ValueOf(out, Name("statsd.", <<>>, "numStats"))
             = RatSum(<<FlushCount("counter"), FlushCount("timer"), FlushCount("gauge"),
                        FlushCount("meter"), FlushCount("plugin")>>)
        /\ FlushCount("counter") = RatInt(CountWhere(out, "counter", "stats_counts.", ""))
        /\ FlushCount("timer") = RatInt(CountWhere(out, "timer", "stats.timers.", ".count"))
        /\ FlushCount("gauge") = RatInt(CountWhere(out, "gauge", "stats.gauge.", ".value"))
        /\ FlushCount("meter") = RatInt(CountWhere(out, "meter", "stats.meter.", ".count"))
        /\ FlushCount("plugin") = RatInt(CountWhere(out, "plugin", "stats.plugin.", ""))

\* C6, witness: a fully consumed flush has emitted statsd.numStats = 3 with
\* two counter groups and one group of another kind.
C6_Witness ==
    /\ FlushDone
    /\ ValueOf(out, Name("statsd.", <<>>, "numStats")) = RatInt(3)
    /\ FlushCount("counter") = RatInt(2)

GroupRank(kind) ==
    CASE kind = "counter" -> 1
      [] kind = "timer"   -> 2
      [] kind = "gauge"   -> 3
      [] kind = "meter"   -> 4
      [] kind = "plugin"  -> 5
      [] kind = "summary" -> 6

\* C7: no record of a later group precedes a record of an earlier group, in
\* the order counters, timers, gauges, meters, plugins, summary.
C7_GroupOrder ==
    \A i, j \in 1..Len(Emitted) :
        i < j => GroupRank(Emitted[i].kind) <= GroupRank(Emitted[j].kind)

\* C7, witness: a fully consumed flush has emitted records of a counter, of
\* a timer and of a gauge, and its summary.
C7_Witness ==
    /\ FlushDone
    /\ \E i, j, k \in 1..Len(out) :
          out[i].kind = "counter" /\ out[j].kind = "timer" /\ out[k].kind = "gauge"

\* C8: a flush consumed to the end has emitted, for every counter key,
\* a stats_counts value that is what had been accepted for the key when the
\* flush was called; for every timer key with durations accepted by then, a
\* count of at least that many; and, first among its gauge records, one per
\* gauge sample accepted by then.
C8_EarlierSamplesIncluded ==
    FlushDone =>
        /\ \A i \in 1..Len(hist.startC) :
              /\ HasRecord(out, Name("stats_counts.", hist.startC[i].key, ""))
              /\ ValueOf(out, Name("stats_counts.", hist.startC[i].key, ""))
                   = hist.startC[i].value
        /\ \A i \in 1..Len(hist.startT) :
              hist.startT[i].value # RatInt(0) =>
                  /\ HasRecord(out, Name("stats.timers.", hist.startT[i].key, ".count"))
                  /\ RatLeq(hist.startT[i].value,
                            ValueOf(out, Name("stats.timers.", hist.startT[i].key, ".count")))
        /\ IsPrefix(hist.startG, GaugesOf(out))

\* C8, witness: a flush consumed to the end, with a call of process
\* interleaved, was called after counter samples of two keys were accepted.
C8_Witness ==
    /\ FlushDone
    /\ nflush = 1
    /\ ninter = 1
    /\ Len(hist.startC) = 2
    /\ \A i \in 1..Len(hist.startC) : hist.startC[i].value # RatInt(0)

\* C9: a plugin's process or flush that raises does not reach the caller:
\* neither the call of process nor the flush ends with the plugin's
\* exception.
C9_PluginFailureContained ==
    /\ ret.exc # "PluginError"
    /\ gen.exc # "PluginError"

\* C10: normalize_key returns, its result holds only bytes of the safe set,
\* and normalize_key of the result is the result.
C10_NormalizeIdempotentSafe ==
    /\ nk_pc \in {"once", "twice"} =>
          /\ nk_once.exc = ""
          /\ Range(nk_once.key) \subseteq SafeBytes
    /\ nk_pc = "twice" => nk_twice = nk_once

Aggregators ==
    {"counter_metrics", "timer_metrics", "gauge_metrics", "meter_metrics", "plugin_metrics"}

\* between processor states s and t the entries of every key but k are the
\* same in the aggregator a: in a map, the same keys with the same values;
\* in the gauge sequence, the entries of s, then entries of k only
OnlyKeyChanged(s, t, a, k) ==
    IF a = "gauge_metrics"
    THEN /\ IsPrefix(s[a], t[a])
         /\ \A i \in (Len(s[a]) + 1)..Len(t[a]) : t[a][i].key = k
    ELSE /\ \A i \in 1..Len(s[a]) :
              s[a][i].key # k => HasKey(t[a], s[a][i].key) /\ Get(t[a], s[a][i].key) = s[a][i]
         /\ \A i \in 1..Len(t[a]) : t[a][i].key # k => HasKey(s[a], t[a][i].key)

ProcessFrame(s, t, k) ==
    /\ Cardinality({a \in Aggregators : s[a] # t[a]}) <= 1
    /\ \A a \in Aggregators : OnlyKeyChanged(s, t, a, k)

\* C11: a call of process changes at most one of the five aggregators, and
\* in it nothing but the entry of the payload's normalized key, whichever
\* payload the call was made with and whether it returned, failed or raised.
C11_ProcessFrame ==
    [][\A ip \in Interpreters, m \in IngestPayloads, pr \in BOOLEAN :
          (/\ nproc' = nproc + 1
           /\ Contains(m, ":")
           /\ self' = process(self, ip, m, pr).self
           /\ ret'.exc = process(self, ip, m, pr).exc)
          => ProcessFrame(self, self', normalize_key(SplitOnce(Strip(m), ":")[1]))]_vars

\* C11, witness: process was called with counter entries of two keys and a
\* gauge entry in place.
C11_Witness ==
    /\ ret.called
    /\ nproc = 3
    /\ Len(self.counter_metrics) = 2
    /\ self.gauge_metrics # <<>>

\* C12: a flush never ends with an exception, whatever the percent.
C12_FlushRunsToCompletion == gen.pc # "raised"

\* C13: the .count a flush emits for a meter key is not less than the
\* .count the flush before it emitted for the key.
C13_MeterCountMonotone ==
    \A i \in 1..Len(Emitted), j \in 1..Len(hist.prevM) :
        (Emitted[i].kind = "meter" /\ Emitted[i].name = hist.prevM[j].name)
            => RatLeq(hist.prevM[j].value, Emitted[i].value)

\* C14: get_metric_names() is the set of the normalized keys of the samples
\* accepted so far, no more and no less.
C14_MetricNamesAreAcceptedKeys == get_metric_names(self) = hist.names

\* C15: every packet flush hands to the connection's write is at most 512
\* bytes long, whatever the lengths of the pipelined lines
C15_PacketsAtMost512 ==
    \A i \in 1..Len(cl_written) : StrLen(cl_written[i]) <= MaxPacket

\* C16: a fully consumed flush has emitted statsd.receive.<type>.count and
\* .duration for exactly the metric types process accepted a sample of since
\* the previous completed flush, the count being the number of those calls,
\* and has left the per-type timings and counts holding only what process
\* accrued after it.
C16_ReceiveTelemetryExact ==
    FlushDone =>
        \A t \in MetricTypes :
            /\ HasRecord(out, Name("statsd.receive.", t, ".count")) <=> hist.recvDue[t] > 0
            /\ HasRecord(out, Name("statsd.receive.", t, ".duration")) <=> hist.recvDue[t] > 0
            /\ hist.recvDue[t] > 0 =>
                  ValueOf(out, Name("statsd.receive.", t, ".count")) = RatInt(hist.recvDue[t])
            /\ HasKey(self.by_type, t) <=> hist.recv[t] > 0
            /\ HasKey(self.process_timings, t) <=> hist.recv[t] > 0
            /\ hist.recv[t] > 0 => Get(self.by_type, t).n = hist.recv[t]

\* the step of flush that takes the bucket of timer key k: the generator
\* runs on (no record of a group is left to hand over), the bucket holds
\* samples before and none after
TakesBucket(k) ==
    /\ FlushActive
    /\ pending = <<>>
    /\ HasKey(self.timer_metrics, k)
    /\ Get(self.timer_metrics, k).timers # <<>>
    /\ HasKey(self'.timer_metrics, k)
    /\ Get(self'.timer_metrics, k).timers = <<>>

\* the group that step yields: the record handed over and those in hand
YieldedGroup == IF Len(out') = Len(out) + 1 THEN <<out'[Len(out')]>> \o pending' ELSE <<>>

RatFloor(a) == a[1] \div a[2]

\* the mean and upper_<percent> records of key k in the yielded group are
\* those of the lowest kept samples of the bucket, the mean rounded by
\* rounding(_)
TrimmedStatistics(k, bucket, kept, rounding(_)) ==
    LET timers == SubSeq(Sort(bucket), 1, kept)
    IN  /\ gen'.pc # "raised"
        /\ kept >= 1
        /\ Len(YieldedGroup) = 5
        /\ \A i \in 1..5 : YieldedGroup[i].kind = "timer" /\ YieldedGroup[i].name.key = k
        /\ TimerValue(YieldedGroup, k, ".upper_%d") = timers[kept]
        /\ TimerValue(YieldedGroup, k, ".mean")
              = IF Len(bucket) = 1 THEN timers[1]
                ELSE RatInt(rounding(RatDiv(RatSum(timers), RatInt(kept))))

\* C17: for a bucket of n > 1 samples flush keeps the lowest
\* n - round((1 - percent/100) * n) samples of the ascending sort, emits
\* upper_<percent> as the largest kept sample and mean as the floor of the
\* sum of the kept samples over their number; for n = 1, mean and
\* upper_<percent> are the single sample.
C17_TimerTrimming ==
    [][\A k \in Range(KeyList(self.timer_metrics)) :
          TakesBucket(k) =>
             LET bucket == Get(self.timer_metrics, k).timers
                 n      == Len(bucket)
             IN  \E ip \in Interpreters :
                    TrimmedStatistics(k, bucket,
                        IF n = 1 THEN 1 ELSE n - Round(ip, (100 - gen.percent) * n, 100),
                        RatFloor)]_vars

\* the keys that have accepted a timer sample, and what the current flush
\* has emitted for a key
TimerKeys == Range(KeyList(hist.winT)) \cup Range(KeyList(self.timer_metrics))

TimerRecordsOf(k) == SelectSeq(out, LAMBDA r : r.kind = "timer" /\ r.name.key = k)

TimerEmitted(k) == TimerRecordsOf(k) # <<>>

\* what C18 says of emission: a key's records are five or none; they are
\* there when the key had accepted a sample since its records were last
\* emitted, as the flush was called, and only when it had accepted one as
\* the flush reached it; flush.timer.count counts the keys emitted
TimerEmission ==
    /\ \A k \in TimerKeys :
          /\ HasKey(self.timer_metrics, k)
          /\ Len(TimerRecordsOf(k)) \in {0, 5}
          /\ RatLeq(RatInt(1), WinGet(hist.startT, k)) => TimerEmitted(k)
          /\ TimerEmitted(k) =>
                \E i \in 1..Len(hist.exp) : /\ hist.exp[i].kind = "timer"
                                            /\ hist.exp[i].key = k
                                            /\ RatLeq(RatInt(1), hist.exp[i].value)
          /\ (~hist.interleaved) =>
                (TimerEmitted(k) <=> RatLeq(RatInt(1), WinGet(hist.startT, k)))
    /\ FlushCount("timer") = RatInt(Cardinality({k \in TimerKeys : TimerEmitted(k)}))

\* C18, as amended: after a fully consumed flush every timer bucket holds
\* only the samples accepted since the flush emitted its key's records
\* (none when process was not called since the flush was called) while its
\* key is retained, and the flush has emitted the five timer records for a
\* key if and only if the key had accepted a timer sample since its records
\* were last emitted; a key with an empty bucket emits nothing and does not
\* count towards flush.timer.count.
C18_TimerBucketsTaken ==
    FlushDone =>
        /\ TimerEmission
        /\ \A k \in TimerKeys :
              /\ RatInt(Len(Get(self.timer_metrics, k).timers)) = WinGet(hist.winT, k)
              /\ (~hist.interleaved) => Get(self.timer_metrics, k).timers = <<>>

\* C18, witness: a second flush has run to its end over a timer key whose
\* bucket the first flush emptied: the key is there, its bucket is empty,
\* and the flush has emitted no timer record and counted no timer.
C18_Witness ==
    /\ FlushDone
    /\ nflush = 2
    /\ ~hist.interleaved
    /\ HasKey(self.timer_metrics, <<"a">>)
    /\ ~TimerEmitted(<<"a">>)
    /\ FlushCount("timer") = RatInt(0)

\* C18 as stated: after a fully consumed flush, and before process is called
\* again, every timer bucket is empty.
C18_TimerBucketsEmpty ==
    (FlushDone /\ ~hist.later) =>
        /\ TimerEmission
        /\ \A k \in TimerKeys : Get(self.timer_metrics, k).timers = <<>>

\* the keys the current flush has reset, and the records of a kind the
\* consumer has received for a key
ResetInFlush(kind, k) ==
    \E i \in 1..Len(hist.exp) : hist.exp[i].kind = kind /\ hist.exp[i].key = k

Delivered(kind, k) ==
    Cardinality({i \in 1..Len(out) : out[i].kind = kind /\ out[i].name.key = k})

\* C19: when the consumer abandons a flush after any number of records,
\* every counter or timer key either has been reset with all of its records
\* of this flush delivered (two for a counter, five for a timer), or still
\* holds all that was accepted for it.
C19_PartialFlushSafe ==
    gen.pc = "abandoned" =>
        /\ \A k \in Range(KeyList(self.counter_metrics)) :
              IF ResetInFlush("counter", k)
              THEN Delivered("counter", k) = 2
              ELSE Get(self.counter_metrics, k).value = WinGet(hist.winC, k)
        /\ \A k \in Range(KeyList(self.timer_metrics)) :
              IF ResetInFlush("timer", k)
              THEN Delivered("timer", k) = 5
              ELSE RatInt(Len(Get(self.timer_metrics, k).timers)) = WinGet(hist.winT, k)

\* C20: every accepted message of a plugin type T for a key K is handed to
\* an instance built by T's factory, also when another plugin type has
\* already received a message for K.
C20_PluginInstanceOfOwnType ==
    [][\A ip \in Interpreters, m \in {x \in IngestPayloads : IsPluginPayload(x)} :
          (/\ nproc' = nproc + 1
           /\ ret'.accepted
           /\ self' = process(self, ip, m, FALSE).self)
          => /\ HasKey(self'.plugin_metrics, SampleKey(m))
             /\ Get(self'.plugin_metrics, SampleKey(m)).factory = SampleType(m)]_vars

\* C21: a call of process that rejects its payload leaves the whole
\* processor as it was: no aggregator entry is created or modified, and the
\* per-type ingest timing and count are not accrued.
C21_RejectedPayloadLeavesNoTrace ==
    [][(nproc' = nproc + 1 /\ ret'.failed) => self' = self]_vars

\* C22: every call report(name, value, metric_type, extra) sends a body
\* value|metric_type, or value|metric_type|extra, whose type field is the
\* metric_type passed to that call, also when the same fully qualified name
\* was reported earlier with another metric_type.
C22_ReportSendsOwnType ==
    /\ Len(cl_sent) = Len(cl_calls)
    /\ \A i \in 1..Len(cl_calls) :
          LET call   == cl_calls[i]
              fields == Split(cl_sent[i].body, "|")
          IN  /\ Len(fields) = IF call.extra.none THEN 2 ELSE 3
              /\ fields[1] = call.value
              /\ fields[2] = call.metric_type
              /\ ~call.extra.none => fields[3] = call.extra.s

=========================================================================
